---- MODULE Spec2Model ----
(***************************************************************************)
(* Model of the guard server's streaming pipeline (src/guardserver.py):    *)
(*   stream_producer -> raw_token_queue -> assemble_sentences ->           *)
(*   chunk_queue -> dispatch_validations -> executor (validate_chunk_sync) *)
(*   -> write_queue -> websocket_writer -> client.                         *)
(* Text is a sequence of one-character strings.                            *)
(***************************************************************************)
EXTENDS Integers, Sequences, FiniteSets, TLC

\* ---------------------------------------------------------------- bounds
\* Number of token messages the backend sends on one connection (pipeline runs).
MaxTokens == 3
\* Number of token messages in the runs that explore the assembler alone.
MaxAsmTokens == 3
\* Number of token messages in the runs of a connection without rejected text.
MaxValidTokens == 4
\* Longest time (seconds) the clock since the last flush is followed.
MaxClockSeconds == 3
\* Longest time (seconds) the sentence extraction call is taken to last.
MaxNlpSeconds == 3

\* ------------------------------------------------------ program constants
MAX_BUFFER_CHARS == 200
MAX_WAIT_SECONDS == 3
\* executor = ThreadPoolExecutor(max_workers=2)
MaxWorkers == 2
\* if len(pending) > 4
PendingThreshold == 4
\* asyncio.wait_for(raw_token_queue.get(), timeout=2.0)
QueueGetTimeout == 2

VARIABLES
    prod_pc,          \* stream_producer: "connect", "stream", "done"
    ntok,             \* token messages received from the backend so far
    raw_token_queue,  \* asyncio.Queue of tokens / terminal marker
    raw_buffer,       \* assemble_sentences.raw_buffer
    chunk_seq,        \* assemble_sentences.chunk_seq
    asm_pc,           \* assemble_sentences: "run", "done"
    chunk_queue,      \* asyncio.Queue of chunks / end signal
    disp_pc,          \* dispatch_validations: "get", "wait", "gather", "done"
    disp_pending,     \* dispatch_validations.pending (task ids)
    launched,         \* number of run_in_executor calls so far (next task id)
    exec_queue,       \* executor: submitted, unfinished tasks (FIFO)
    done_tasks,       \* ids of tasks whose future is done
    write_queue,      \* queue.Queue of results / end signal
    w_pc,             \* websocket_writer: "run", "drain", "done"
    expected_seq,     \* websocket_writer.expected_seq
    writer_pending,   \* websocket_writer.pending (seq -> text)
    sent,             \* messages handed to ws.send_json, in order
    received,         \* history: concatenation of the tokens the assembler consumed
    chunks,           \* history: every chunk put on chunk_queue, in order
    wq_hist,          \* history: every item put on write_queue, in order
    h_pc,             \* websocket_endpoint: "receive", "await_asm", "await_disp",
                      \*   "join", "done"
    prompt,           \* websocket_endpoint.prompt, <<>> until the request is read
    url,              \* websocket_endpoint.url, "" until router has returned
    model_ws,         \* stream_producer's backend connection: "none", "open", "closed"
    since_flush,      \* clock: seconds since the assembler's last flush (or its start)
    since_token,      \* clock: seconds since the assembler last took a token
    template_content, \* router_agent: per model, <X>_TEMPLATE["messages"][0]["content"]
    peer_pc,          \* per connection: "route", "connect", "send", then the
                      \*   dispatcher's "get", "wait", "gather", "done"
    peer_prompt,      \* per connection: the prompt of its request
    peer_model,       \* per connection: the model its request names
    peer_sent,        \* per connection: the prompt in the payload sent to the backend
    peer_pending,     \* per connection: dispatch_validations.pending
    peer_launched,    \* per connection: number of run_in_executor calls so far
    shared_queue,     \* the one executor: submitted, unfinished tasks of all connections
    shared_done,      \* tasks of all connections whose future is done
    cq,               \* WsClient._q: items the background threads put, oldest first
    active,           \* WsClient._active
    gen,              \* number of send_prompt calls so far; the last one's is current
    th_pc,            \* per send_prompt call, its thread: "none", "connect", "recv",
                      \*   "closing" (before the put of the finally block), "done"
    th_n,             \* per send_prompt call: token messages its session received
    st_pc,            \* WsClient.stream of the last send_prompt: "idle", "run", "done"
    yielded,          \* history: what the current stream() has yielded, in order
    consumed,         \* history: the items the current stream() took off _q, in order
    put_hist          \* history: every item put on _q, in order

vars == <<prod_pc, ntok, raw_token_queue, raw_buffer, chunk_seq, asm_pc,
          chunk_queue, disp_pc, disp_pending, launched, exec_queue,
          done_tasks, write_queue, w_pc, expected_seq, writer_pending, sent,
          received, chunks, wq_hist, h_pc, prompt, url, model_ws, since_flush, since_token,
          template_content, peer_pc, peer_prompt, peer_model, peer_sent,
          peer_pending, peer_launched, shared_queue, shared_done,
          cq, active, gen, th_pc, th_n, st_pc, yielded, consumed, put_hist>>

prodVars == <<prod_pc, ntok, model_ws>>
asmVars  == <<raw_buffer, chunk_seq, asm_pc, received, chunks, since_flush, since_token>>
dispVars == <<disp_pc, disp_pending, launched>>
execVars == <<exec_queue, done_tasks>>
wrVars   == <<w_pc, expected_seq, writer_pending, sent>>
connVars == <<h_pc, prompt, url>>
peerVars == <<template_content, peer_pc, peer_prompt, peer_model, peer_sent,
              peer_pending, peer_launched, shared_queue, shared_done>>
clientVars == <<cq, active, gen, th_pc, th_n, st_pc, yielded, consumed, put_hist>>

\* ------------------------------------------------------------------ text
IsTerm(c)  == c \in {".", "!", "?"}
IsSpace(c) == c = " "

\* str.strip() is empty
IsBlank(text) == \A i \in 1..Len(text) : IsSpace(text[i])

\* The validation predicate: an opaque function of the text. Text holding the
\* character "x" is what the output guard rejects.
GuardRejects(text) == \E i \in 1..Len(text) : text[i] = "x"

Rep(c, n) == [i \in 1..n |-> c]

\* Tokens of the pipeline runs: a clean sentence, and a clean sentence followed
\* by the start of a rejected one.
PipeTokens == { <<"a", ".">>, <<"a", ".", " ", "x">> }

\* Token of the runs of a connection without rejected text: a clean sentence
\* followed by the start of the next.
ValidTokens == { <<"a", ".", " ", "a">> }

\* Tokens of the timed assembler runs: a letter and a sentence end.
TimedTokens == { <<"a">>, <<".">> }

\* Tokens of the steady runs: a letter, whitespace and a sentence end.
SteadyTokens == { <<"a">>, <<" ">>, <<".">> }

\* Tokens of the assembler runs: letter, sentence end, whitespace, a sentence end
\* inside the token, and a token one short of the size cap.
AsmTokens == { <<"a">>, <<".">>, <<" ">>, <<"a", ".", " ", "a">>,
               Rep("a", MAX_BUFFER_CHARS - 1) }

\* Queue items.
TokItem(t) == [end |-> FALSE, text |-> t]
EndTok     == [end |-> TRUE, text |-> <<>>]
Chunk(seq, text, complete) ==
    [end |-> FALSE, seq |-> seq, text |-> text, is_complete |-> complete]
EndChunk   == [end |-> TRUE, seq |-> 0, text |-> <<>>, is_complete |-> FALSE]
Result(status, seq, text) ==
    [end |-> FALSE, status |-> status, seq |-> seq, text |-> text]
EndResult  == [end |-> TRUE, status |-> "", seq |-> 0, text |-> <<>>]

\* ------------------------------------------------- sentence segmentation
\* doc.sents of the external parser: a sentence ends at terminal punctuation
\* followed by whitespace or the end of the text; text after the last such
\* boundary is one more (unterminated) sentence. Offsets are Python offsets:
\* a sentence is raw_text[start:end], trailing whitespace excluded from end.
Boundaries(text) ==
    { i \in 1..Len(text) :
        IsTerm(text[i]) /\ (i = Len(text) \/ IsSpace(text[i + 1])) }

LastNonSpace(text) ==
    LET ns == { i \in 1..Len(text) : ~IsSpace(text[i]) }
    IN  IF ns = {} THEN 0 ELSE CHOOSE i \in ns : \A j \in ns : j <= i

EndChars(text) ==
    Boundaries(text) \cup (IF LastNonSpace(text) > 0 THEN {LastNonSpace(text)} ELSE {})

RECURSIVE SpansFrom(_, _)
SpansFrom(ends, start) ==
    IF ends = {} THEN <<>>
    ELSE LET e == CHOOSE x \in ends : \A y \in ends : x <= y
         IN  <<[start_char |-> start, end_char |-> e]>> \o SpansFrom(ends \ {e}, e)

Sents(text) == SpansFrom(EndChars(text), 0)

\* raw_text[a:b]
Slice(text, a, b) == SubSeq(text, a + 1, b)

\* str.rstrip()
RStrip(text) == SubSeq(text, 1, LastNonSpace(text))

\* The loop of extract_complete_sentences_spacy over the sentences: the end of
\* the last sentence of the leading run of sentences that end in . ! or ?
RECURSIVE CompleteEnd(_, _, _, _)
CompleteEnd(text, sentences, k, complete_end) ==
    IF k > Len(sentences) THEN complete_end
    ELSE LET stripped == RStrip(Slice(text, sentences[k].start_char, sentences[k].end_char))
         IN  IF stripped # <<>> /\ IsTerm(stripped[Len(stripped)])
             THEN CompleteEnd(text, sentences, k + 1, sentences[k].end_char)
             ELSE complete_end

extract_complete_sentences_spacy(raw_text) ==
    IF IsBlank(raw_text) THEN [complete |-> <<>>, remaining |-> raw_text]
    ELSE LET sentences == Sents(raw_text)
         IN  IF sentences = <<>> THEN [complete |-> <<>>, remaining |-> raw_text]
             ELSE LET complete_end == CompleteEnd(raw_text, sentences, 1, 0)
                  IN  IF complete_end > 0
                      THEN [complete  |-> Slice(raw_text, 0, complete_end),
                            remaining |-> Slice(raw_text, complete_end, Len(raw_text))]
                      ELSE [complete |-> <<>>, remaining |-> raw_text]

\* --------------------------------------------------------- stream_producer
\* Every exit of stream_producer puts the terminal marker and returns.
ProducerExit ==
    /\ raw_token_queue' = Append(raw_token_queue, EndTok)
    /\ prod_pc' = "done"
    /\ model_ws' = IF model_ws = "open" THEN "closed" ELSE model_ws
    /\ UNCHANGED ntok

\* ws_client.connect(url) and the send of the payload succeed; with the url
\* "error" of a request router rejected, connect raises.
ProducerConnect ==
    /\ prod_pc = "connect"
    /\ url # "error"
    /\ prod_pc' = "stream"
    /\ model_ws' = "open"
    /\ UNCHANGED <<ntok, raw_token_queue>>
    /\ UNCHANGED <<asmVars, chunk_queue, dispVars, execVars, write_queue, wrVars, wq_hist, connVars, peerVars, clientVars>>

\* connect or send raises: except branch.
ProducerConnectFail ==
    /\ prod_pc = "connect"
    /\ ProducerExit
    /\ UNCHANGED <<asmVars, chunk_queue, dispVars, execVars, write_queue, wrVars, wq_hist, connVars, peerVars, clientVars>>

\* A message {"token": tok} with tok not None.
ProducerToken(tok) ==
    /\ prod_pc = "stream"
    /\ raw_token_queue' = Append(raw_token_queue, TokItem(tok))
    /\ ntok' = ntok + 1
    /\ UNCHANGED <<prod_pc, model_ws>>
    /\ UNCHANGED <<asmVars, chunk_queue, dispVars, execVars, write_queue, wrVars, wq_hist, connVars, peerVars, clientVars>>

\* A message {"token": None}.
ProducerTerminal ==
    /\ prod_pc = "stream"
    /\ ProducerExit
    /\ UNCHANGED <<asmVars, chunk_queue, dispVars, execVars, write_queue, wrVars, wq_hist, connVars, peerVars, clientVars>>

\* A message {"error": ...}.
ProducerError ==
    /\ prod_pc = "stream"
    /\ ProducerExit
    /\ UNCHANGED <<asmVars, chunk_queue, dispVars, execVars, write_queue, wrVars, wq_hist, connVars, peerVars, clientVars>>

\* Mutant of the close path: the producer returns without the terminal marker.
ProducerClose_NoMarker ==
    /\ prod_pc = "stream"
    /\ prod_pc' = "done"
    /\ model_ws' = "closed"
    /\ UNCHANGED <<ntok, raw_token_queue>>
    /\ UNCHANGED <<asmVars, chunk_queue, dispVars, execVars, write_queue, wrVars, wq_hist, connVars, peerVars, clientVars>>

\* The backend closes the connection: the async for ends, line 242.
ProducerClose ==
    /\ prod_pc = "stream"
    /\ ProducerExit
    /\ UNCHANGED <<asmVars, chunk_queue, dispVars, execVars, write_queue, wrVars, wq_hist, connVars, peerVars, clientVars>>

\* Receiving or parsing a message raises: except branch.
ProducerExcept ==
    /\ prod_pc = "stream"
    /\ ProducerExit
    /\ UNCHANGED <<asmVars, chunk_queue, dispVars, execVars, write_queue, wrVars, wq_hist, connVars, peerVars, clientVars>>

\* ------------------------------------------------------ assemble_sentences
\* Mutant of the emission: the sequence counter is not advanced.
EmitChunk_NoIncrement(text, complete) ==
    /\ chunk_queue' = Append(chunk_queue, Chunk(chunk_seq, text, complete))
    /\ chunks' = Append(chunks, Chunk(chunk_seq, text, complete))
    /\ since_flush' = 0
    /\ UNCHANGED chunk_seq

\* chunk_queue.put((chunk_seq, text, time, is_complete)); chunk_seq += 1
EmitChunk(text, complete) ==
    /\ chunk_queue' = Append(chunk_queue, Chunk(chunk_seq, text, complete))
    /\ chunks' = Append(chunks, Chunk(chunk_seq, text, complete))
    /\ chunk_seq' = chunk_seq + 1
    /\ since_flush' = 0

\* Mutants of the size-cap test: any buffer counts as over the cap; none does.
OverCap_Always(buffer) == TRUE
OverCap_Never(buffer) == FALSE

\* The size-cap test of should_flush.
OverCap(buffer) == Len(buffer) >= MAX_BUFFER_CHARS

\* Mutants of the final flush: the remaining buffer is never flushed; it is
\* flushed whatever it holds.
FinalFlushNeeded_Never(buffer) == FALSE
FinalFlushNeeded_Always(buffer) == TRUE

\* The terminal-marker test before the final flush: raw_buffer.strip()
FinalFlushNeeded(buffer) == ~IsBlank(buffer)

\* Mutant of the end of the stream: the end signal is put before the final chunk.
AsmEnd_SignalFirst ==
    /\ asm_pc = "run"
    /\ raw_token_queue # <<>>
    /\ Head(raw_token_queue).end
    /\ raw_token_queue' = Tail(raw_token_queue)
    /\ IF FinalFlushNeeded(raw_buffer)
       THEN /\ chunk_queue' = chunk_queue \o <<EndChunk, Chunk(chunk_seq, raw_buffer, FALSE)>>
            /\ chunks' = Append(chunks, Chunk(chunk_seq, raw_buffer, FALSE))
            /\ chunk_seq' = chunk_seq + 1
            /\ since_flush' = 0
       ELSE /\ chunk_queue' = Append(chunk_queue, EndChunk)
            /\ UNCHANGED <<chunks, chunk_seq, since_flush>>
    /\ asm_pc' = "done"
    /\ UNCHANGED <<raw_buffer, received, since_token>>
    /\ UNCHANGED <<prodVars, dispVars, execVars, write_queue, wrVars, wq_hist, connVars, peerVars, clientVars>>

\* raw_token_queue.get() returned the terminal marker.
AsmEnd ==
    /\ asm_pc = "run"
    /\ raw_token_queue # <<>>
    /\ Head(raw_token_queue).end
    /\ raw_token_queue' = Tail(raw_token_queue)
    /\ IF FinalFlushNeeded(raw_buffer)
       THEN /\ chunk_queue' = chunk_queue \o <<Chunk(chunk_seq, raw_buffer, FALSE), EndChunk>>
            /\ chunks' = Append(chunks, Chunk(chunk_seq, raw_buffer, FALSE))
            /\ chunk_seq' = chunk_seq + 1
            /\ since_flush' = 0
       ELSE /\ chunk_queue' = Append(chunk_queue, EndChunk)
            /\ UNCHANGED <<chunks, chunk_seq, since_flush>>
    /\ asm_pc' = "done"
    /\ UNCHANGED <<raw_buffer, received, since_token>>
    /\ UNCHANGED <<prodVars, dispVars, execVars, write_queue, wrVars, wq_hist, connVars, peerVars, clientVars>>

\* Mutant of the token step: the size and time test comes before the
\* sentence boundary.
AsmToken_CapFirst(d) ==
    /\ asm_pc = "run"
    /\ raw_token_queue # <<>>
    /\ ~Head(raw_token_queue).end
    /\ raw_token_queue' = Tail(raw_token_queue)
    /\ received' = received \o Head(raw_token_queue).text
    /\ LET buffer == raw_buffer \o Head(raw_token_queue).text
           ex     == extract_complete_sentences_spacy(buffer)
           should_flush == (d >= MAX_WAIT_SECONDS) \/ OverCap(buffer)
       IN  IF should_flush /\ ~IsBlank(buffer)
           THEN /\ EmitChunk(buffer, FALSE)
                /\ raw_buffer' = <<>>
           ELSE IF ex.complete # <<>>
                THEN /\ EmitChunk(ex.complete, TRUE)
                     /\ raw_buffer' = ex.remaining
                ELSE /\ raw_buffer' = buffer
                     /\ UNCHANGED <<chunk_queue, chunks, chunk_seq, since_flush>>
    /\ since_token' = 0
    /\ UNCHANGED asm_pc
    /\ UNCHANGED <<prodVars, dispVars, execVars, write_queue, wrVars, wq_hist, connVars, peerVars, clientVars>>

\* raw_token_queue.get() returned a token. d is now - last_token_time at line
\* 124: last_token_time was set at line 115, so d is the time the sentence
\* extraction took.
AsmToken(d) ==
    /\ asm_pc = "run"
    /\ raw_token_queue # <<>>
    /\ ~Head(raw_token_queue).end
    /\ raw_token_queue' = Tail(raw_token_queue)
    /\ received' = received \o Head(raw_token_queue).text
    /\ LET buffer == raw_buffer \o Head(raw_token_queue).text
           ex     == extract_complete_sentences_spacy(buffer)
           should_flush == (d >= MAX_WAIT_SECONDS) \/ OverCap(buffer)
       IN  IF ex.complete # <<>>
           THEN /\ EmitChunk(ex.complete, TRUE)
                /\ raw_buffer' = ex.remaining
           ELSE IF should_flush /\ ~IsBlank(buffer)
                THEN /\ EmitChunk(buffer, FALSE)
                     /\ raw_buffer' = <<>>
                ELSE /\ raw_buffer' = buffer
                     /\ UNCHANGED <<chunk_queue, chunks, chunk_seq, since_flush>>
    /\ since_token' = 0
    /\ UNCHANGED asm_pc
    /\ UNCHANGED <<prodVars, dispVars, execVars, write_queue, wrVars, wq_hist, connVars, peerVars, clientVars>>

\* Mutant of the idle timeout: the handler of TimeoutError flushes nothing.
AsmTimeout_NoFlush ==
    /\ asm_pc = "run"
    /\ raw_token_queue = <<>>
    /\ ~IsBlank(raw_buffer)
    /\ UNCHANGED vars

\* asyncio.wait_for(raw_token_queue.get(), timeout=2.0) timed out: no token
\* arrived for 2 seconds, which needs the queue to be empty.
AsmTimeout ==
    /\ asm_pc = "run"
    /\ raw_token_queue = <<>>
    /\ ~IsBlank(raw_buffer)
    /\ EmitChunk(raw_buffer, FALSE)
    /\ raw_buffer' = <<>>
    /\ UNCHANGED <<asm_pc, received, raw_token_queue, since_token>>
    /\ UNCHANGED <<prodVars, dispVars, execVars, write_queue, wrVars, wq_hist, connVars, peerVars, clientVars>>

\* One second passes while the assembler waits for a token, in a run where
\* tokens arrive at intervals shorter than the get timeout: the wait has not
\* yet lasted QueueGetTimeout, so wait_for does not time out.
Tick ==
    /\ asm_pc = "run"
    /\ since_token + 1 < QueueGetTimeout
    /\ since_flush < MaxClockSeconds
    /\ since_token' = since_token + 1
    /\ since_flush' = since_flush + 1
    /\ UNCHANGED <<raw_buffer, chunk_seq, asm_pc, received, chunks, raw_token_queue, chunk_queue>>
    /\ UNCHANGED <<prodVars, dispVars, execVars, write_queue, wrVars, wq_hist, connVars, peerVars, clientVars>>

\* ---------------------------------------------------- dispatch_validations
Task(id, c) == [id |-> id, seq |-> c.seq, text |-> c.text, is_complete |-> c.is_complete]

\* Mutant of the saturation test: the dispatcher never waits.
PoolSaturated_Never(pending) == FALSE

\* if len(pending) > 4
PoolSaturated(pending) == Cardinality(pending) > PendingThreshold

\* chunk_queue.get() returned a chunk: run_in_executor, pending.add(task).
DispLaunch ==
    /\ disp_pc = "get"
    /\ chunk_queue # <<>>
    /\ ~Head(chunk_queue).end
    /\ chunk_queue' = Tail(chunk_queue)
    /\ exec_queue' = Append(exec_queue, Task(launched, Head(chunk_queue)))
    /\ launched' = launched + 1
    /\ disp_pending' = disp_pending \cup {launched}
    /\ disp_pc' = IF PoolSaturated(disp_pending') THEN "wait" ELSE "get"
    /\ UNCHANGED done_tasks
    /\ UNCHANGED <<prodVars, raw_token_queue, asmVars, write_queue, wrVars, wq_hist, connVars, peerVars, clientVars>>

\* asyncio.wait(pending, return_when=FIRST_COMPLETED) returns: pending := not done.
DispWait ==
    /\ disp_pc = "wait"
    /\ disp_pending \cap done_tasks # {}
    /\ disp_pending' = disp_pending \ done_tasks
    /\ disp_pc' = "get"
    /\ UNCHANGED launched
    /\ UNCHANGED <<prodVars, raw_token_queue, asmVars, chunk_queue, execVars,
                   write_queue, wrVars, wq_hist, connVars, peerVars, clientVars>>

\* Mutant of the final await: the end signal is put without waiting.
GatherDone_NoWait(pending) == TRUE

\* What the dispatcher awaits before it puts the end signal: gather(*pending).
GatherDone(pending) == pending \subseteq done_tasks

\* chunk_queue.get() returned the end signal.
DispEnd ==
    /\ disp_pc = "get"
    /\ chunk_queue # <<>>
    /\ Head(chunk_queue).end
    /\ chunk_queue' = Tail(chunk_queue)
    /\ disp_pc' = "gather"
    /\ UNCHANGED <<disp_pending, launched>>
    /\ UNCHANGED <<prodVars, raw_token_queue, asmVars, execVars, write_queue, wrVars, wq_hist, connVars, peerVars, clientVars>>

\* Mutant of the dispatcher's exit: it breaks without putting the end signal.
DispGather_NoEndSignal ==
    /\ disp_pc = "gather"
    /\ GatherDone(disp_pending)
    /\ disp_pc' = "done"
    /\ UNCHANGED <<disp_pending, launched, write_queue, wq_hist>>
    /\ UNCHANGED <<prodVars, raw_token_queue, asmVars, chunk_queue, execVars, wrVars, connVars, peerVars, clientVars>>

\* gather returned (at once when pending is empty): write_queue.put(None); break.
DispGather ==
    /\ disp_pc = "gather"
    /\ GatherDone(disp_pending)
    /\ write_queue' = Append(write_queue, EndResult)
    /\ wq_hist' = Append(wq_hist, EndResult)
    /\ disp_pc' = "done"
    /\ UNCHANGED <<disp_pending, launched>>
    /\ UNCHANGED <<prodVars, raw_token_queue, asmVars, chunk_queue, execVars, wrVars, connVars, peerVars, clientVars>>

\* ------------------------------------------- executor, validate_chunk_sync
\* Mutant of the validation: the guard is called on Forced chunks too.
validate_chunk_sync_GuardsForced(task) ==
    IF GuardRejects(task.text)
    THEN Result("fail", task.seq, task.text)
    ELSE Result("valid", task.seq, task.text)

\* try: if is_complete: guard_output_complete.validate(text) ... "valid"
\* except: ... "fail"
validate_chunk_sync(task) ==
    IF task.is_complete /\ GuardRejects(task.text)
    THEN Result("fail", task.seq, task.text)
    ELSE Result("valid", task.seq, task.text)

\* exec_queue holds the submitted tasks that have not finished, oldest first.
\* The pool's threads take tasks in submission order, so the tasks being
\* executed are among the first MaxWorkers of them.
Executing == 1..(IF Len(exec_queue) < MaxWorkers THEN Len(exec_queue) ELSE MaxWorkers)

RemoveAt(q, i) == SubSeq(q, 1, i - 1) \o SubSeq(q, i + 1, Len(q))

\* An executor thread runs validate_chunk_sync on its task to the end: the
\* result is put on write_queue, then the task's future is done.
WorkerRun(i) ==
    /\ i \in Executing
    /\ write_queue' = Append(write_queue, validate_chunk_sync(exec_queue[i]))
    /\ wq_hist' = Append(wq_hist, validate_chunk_sync(exec_queue[i]))
    /\ done_tasks' = done_tasks \cup {exec_queue[i].id}
    /\ exec_queue' = RemoveAt(exec_queue, i)
    /\ UNCHANGED <<prodVars, raw_token_queue, asmVars, chunk_queue, dispVars, wrVars, connVars, peerVars, clientVars>>

\* -------------------------------------------------------- websocket_writer
TokenMsg(seq, text) == [type |-> "token", seq |-> seq, text |-> text]
EndMsg   == [type |-> "end", seq |-> 0, text |-> <<>>]
ErrorMsg == [type |-> "error", seq |-> 0, text |-> <<>>]

\* Mutant of the side-table loop: buffered successors are not sent.
Drain_None(exp, pend, out) == [expected_seq |-> exp, pending |-> pend, out |-> out]

\* while expected_seq in pending: pop, send, expected_seq += 1
RECURSIVE Drain(_, _, _)
Drain(exp, pend, out) ==
    IF exp \in DOMAIN pend
    THEN Drain(exp + 1, [k \in DOMAIN pend \ {exp} |-> pend[k]],
               Append(out, TokenMsg(exp, pend[exp])))
    ELSE [expected_seq |-> exp, pending |-> pend, out |-> out]

\* Mutants of the abort test: never taken; taken only for the expected sequence.
IsFail_Never(item) == FALSE
IsFail_InOrderOnly(item) == item.status = "fail" /\ item.seq = expected_seq

\* if status == "fail"
IsFail(item) == item.status = "fail"

\* Mutant of the order test: every valid result is sent as it arrives.
InOrder_Always(item) == TRUE

\* if seq == expected_seq
InOrder(item) == item.seq = expected_seq

\* item is None: safe_send({"token": None}); break
WriterEnd ==
    /\ sent' = Append(sent, EndMsg)
    /\ w_pc' = "done"
    /\ UNCHANGED <<expected_seq, writer_pending>>

\* Mutant of the abort branch: the error is sent but the loop goes on.
WriterAbort_NoBreak ==
    /\ sent' = Append(sent, ErrorMsg)
    /\ UNCHANGED <<w_pc, expected_seq, writer_pending>>

\* status == "fail": safe_send({"error": ...}), then the queue is emptied.
WriterAbort ==
    /\ sent' = Append(sent, ErrorMsg)
    /\ w_pc' = "drain"
    /\ UNCHANGED <<expected_seq, writer_pending>>

\* Mutant of the in-order send: expected_seq is not advanced.
WriterEmit_NoIncrement(item) ==
    /\ sent' = Append(sent, TokenMsg(item.seq, item.text))
    /\ UNCHANGED <<expected_seq, writer_pending, w_pc>>

\* seq == expected_seq: send it, then every buffered successor.
WriterEmit(item) ==
    LET d == Drain(expected_seq + 1, writer_pending,
                   Append(sent, TokenMsg(item.seq, item.text)))
    IN  /\ sent' = d.out
        /\ expected_seq' = d.expected_seq
        /\ writer_pending' = d.pending
        /\ UNCHANGED w_pc

\* else: pending[seq] = (text, ts)
WriterBuffer(item) ==
    /\ writer_pending' =
           [k \in DOMAIN writer_pending \cup {item.seq} |->
               IF k = item.seq THEN item.text ELSE writer_pending[k]]
    /\ UNCHANGED <<sent, expected_seq, w_pc>>

\* One iteration of the writer's loop on the item write_queue.get() returned.
WriterGet ==
    /\ w_pc = "run"
    /\ write_queue # <<>>
    /\ write_queue' = Tail(write_queue)
    /\ LET item == Head(write_queue)
       IN  IF item.end THEN WriterEnd
           ELSE IF IsFail(item) THEN WriterAbort
           ELSE IF InOrder(item) THEN WriterEmit(item)
           ELSE WriterBuffer(item)
    /\ UNCHANGED <<prodVars, raw_token_queue, asmVars, chunk_queue, dispVars,
                   execVars, wq_hist, connVars, peerVars, clientVars>>

\* while not write_queue.empty(): write_queue.get_nowait()
WriterDrain ==
    /\ w_pc = "drain"
    /\ write_queue # <<>>
    /\ write_queue' = Tail(write_queue)
    /\ UNCHANGED wrVars
    /\ UNCHANGED <<prodVars, raw_token_queue, asmVars, chunk_queue, dispVars,
                   execVars, wq_hist, connVars, peerVars, clientVars>>

\* write_queue.empty() after an abort: break, the thread ends.
WriterBreak ==
    /\ w_pc = "drain"
    /\ write_queue = <<>>
    /\ w_pc' = "done"
    /\ UNCHANGED <<expected_seq, writer_pending, sent>>
    /\ UNCHANGED <<prodVars, raw_token_queue, asmVars, chunk_queue, dispVars,
                   execVars, write_queue, wq_hist, connVars, peerVars, clientVars>>

\* ------------------------------------------------------ websocket_endpoint
\* Prompts of a request: none, one the input guard rejects, one it accepts.
Prompts == { <<>>, <<" ">>, <<"x">>, <<"a">> }

\* Model names of a request: none, a key of MODELS, and an unknown name.
ReqModels == { "", "llama-3.2", "bogus" }

\* MODELS
MODELS == [m \in {"llama-3.2", "claude-2", "gpt-4", "vllm"} |->
             CASE m = "llama-3.2" -> "ws://localhost:8765/llama3.2"
               [] m = "claude-2"  -> "ws://localhost:8765/claude2"
               [] m = "gpt-4"     -> "ws://localhost:8765/gpt4"
               [] m = "vllm"      -> "ws://localhost:8765/vllm"]

\* The url router returns: "error" for a prompt that is empty once stripped
\* and for a model name that is no key of MODELS; an empty name stands for
\* llama-3.2.
router(p, model_name) ==
    LET model_key == IF model_name = "" THEN "llama-3.2" ELSE model_name
    IN  IF IsBlank(p) THEN "error"
        ELSE IF model_key \notin DOMAIN MODELS THEN "error"
        ELSE MODELS[model_key]

\* guard_input.validate(prompt, on="input") raises: an opaque function of the
\* prompt. A prompt holding the character "x" is what the input guard rejects.
InputGuardRejects(p) == \E i \in 1..Len(p) : p[i] = "x"

PromptRequiredMsg == [type |-> "error", seq |-> 0, text |-> <<"Prompt is required">>]
InputFailedMsg    == [type |-> "error", seq |-> 0, text |-> <<"Input validation failed">>]

\* What a handler step leaves alone besides the stages' positions and sent.
pipeData == <<ntok, model_ws, raw_token_queue, raw_buffer, chunk_seq, received, chunks,
              since_flush, since_token, chunk_queue, disp_pending, launched, execVars,
              write_queue, expected_seq, writer_pending, wq_hist, peerVars, clientVars>>

\* if not prompt: send {"error": "Prompt is required"}; return
HandlerNoPrompt(p) ==
    /\ h_pc = "receive"
    /\ p = <<>>
    /\ prompt' = p
    /\ sent' = Append(sent, PromptRequiredMsg)
    /\ h_pc' = "done"
    /\ UNCHANGED <<prod_pc, asm_pc, disp_pc, w_pc, url, pipeData>>

\* Mutant of the input-guard branch: the error is sent but the return is
\* missing, so the pipeline is started all the same.
HandlerInputRejected_NoReturn(p) ==
    /\ h_pc = "receive"
    /\ p # <<>>
    /\ InputGuardRejects(p)
    /\ prompt' = p
    /\ sent' = Append(sent, InputFailedMsg)
    /\ w_pc' = "run"
    /\ asm_pc' = "run"
    /\ disp_pc' = "get"
    /\ prod_pc' = "connect"
    /\ h_pc' = "await_asm"
    /\ UNCHANGED <<url, pipeData>>

\* guard_input.validate raised: alert email, send {"error": "Input validation
\* failed"}; return
HandlerInputRejected(p) ==
    /\ h_pc = "receive"
    /\ p # <<>>
    /\ InputGuardRejects(p)
    /\ prompt' = p
    /\ sent' = Append(sent, InputFailedMsg)
    /\ h_pc' = "done"
    /\ UNCHANGED <<prod_pc, asm_pc, disp_pc, w_pc, url, pipeData>>

\* The prompt passed: router, the three queues, the writer thread, the
\* assembler and dispatcher tasks are created and stream_producer is entered.
HandlerStart(p) ==
    /\ h_pc = "receive"
    /\ p # <<>>
    /\ ~InputGuardRejects(p)
    /\ prompt' = p
    /\ \E model_name \in ReqModels : url' = router(p, model_name)
    /\ w_pc' = "run"
    /\ asm_pc' = "run"
    /\ disp_pc' = "get"
    /\ prod_pc' = "connect"
    /\ h_pc' = "await_asm"
    /\ UNCHANGED <<sent, pipeData>>

\* await stream_producer(...) returned and await assembler_task returned.
HandlerAwaitAsm ==
    /\ h_pc = "await_asm"
    /\ prod_pc = "done"
    /\ asm_pc = "done"
    /\ h_pc' = "await_disp"
    /\ UNCHANGED <<prod_pc, asm_pc, disp_pc, w_pc, sent, prompt, url, pipeData>>

\* await dispatcher_task returned.
HandlerAwaitDisp ==
    /\ h_pc = "await_disp"
    /\ disp_pc = "done"
    /\ h_pc' = "join"
    /\ UNCHANGED <<prod_pc, asm_pc, disp_pc, w_pc, sent, prompt, url, pipeData>>

\* writer_thread.join(timeout=5) returned because the thread ended.
HandlerJoin ==
    /\ h_pc = "join"
    /\ w_pc = "done"
    /\ h_pc' = "done"
    /\ UNCHANGED <<prod_pc, asm_pc, disp_pc, w_pc, sent, prompt, url, pipeData>>

\* writer_thread.join(timeout=5) returned on the timeout: the thread is alive,
\* a warning is logged and the handler returns.
HandlerJoinTimeout ==
    /\ h_pc = "join"
    /\ w_pc # "done"
    /\ h_pc' = "done"
    /\ UNCHANGED <<prod_pc, asm_pc, disp_pc, w_pc, sent, prompt, url, pipeData>>

\* ------------------------------------- exceptions in the pipeline's tasks
\* An unexpected exception leaves assemble_sentences while it handles a token
\* it took (raw_buffer += token on a token that is not a string, or the
\* sentence extraction raising): the task ends holding the exception.
AsmRaise ==
    /\ asm_pc = "run"
    /\ raw_token_queue # <<>>
    /\ ~Head(raw_token_queue).end
    /\ raw_token_queue' = Tail(raw_token_queue)
    /\ asm_pc' = "raised"
    /\ UNCHANGED <<raw_buffer, chunk_seq, received, chunks, since_flush, since_token, chunk_queue>>
    /\ UNCHANGED <<prodVars, dispVars, execVars, write_queue, wrVars, wq_hist, connVars, peerVars, clientVars>>

\* An unexpected exception leaves dispatch_validations while it handles a
\* chunk it took (run_in_executor raising): the task ends holding the
\* exception.
DispRaise ==
    /\ disp_pc = "get"
    /\ chunk_queue # <<>>
    /\ ~Head(chunk_queue).end
    /\ chunk_queue' = Tail(chunk_queue)
    /\ disp_pc' = "raised"
    /\ UNCHANGED <<disp_pending, launched>>
    /\ UNCHANGED <<prodVars, raw_token_queue, asmVars, execVars, write_queue, wrVars, wq_hist, connVars, peerVars, clientVars>>

ServerErrorMsg == [type |-> "error", seq |-> 0, text |-> <<"Server error">>]

\* await assembler_task or await dispatcher_task re-raises the task's
\* exception in the handler; except Exception: send {"error": "Server error: ..."}.
HandlerCatch ==
    /\ \/ h_pc = "await_asm" /\ prod_pc = "done" /\ asm_pc = "raised"
       \/ h_pc = "await_disp" /\ disp_pc = "raised"
    /\ sent' = Append(sent, ServerErrorMsg)
    /\ h_pc' = "done"
    /\ UNCHANGED <<prod_pc, asm_pc, disp_pc, w_pc, prompt, url, pipeData>>

\* ------------------------------------------- several connections at once
\* Connections served at the same time by the one event loop. What they share
\* is module state: the router's templates and the executor.
Conns == {"A", "B"}

\* Chunks one connection's assembler hands to its dispatcher, at most.
MaxPeerChunks == 6

PeerPrompts == { <<"a">>, <<"b">> }

\* Two of the keys of MODELS, each with a template of its own.
PeerModels == { "llama-3.2", "claude-2" }

\* payload = OLLAMA_TEMPLATE.copy() is a shallow copy: payload["messages"] is
\* the template's own list, so the content a payload carries is whatever the
\* template's entry holds when the payload is read.
PayloadContent(c) == template_content[peer_model[c]]

PeerTask(c, n) == [conn |-> c, id |-> n]

peerDisp == <<peer_pending, peer_launched, shared_queue, shared_done>>

\* What a step of the connections leaves alone: the single-connection pipeline.
soloVars == <<prodVars, raw_token_queue, asmVars, chunk_queue, dispVars, execVars,
              write_queue, wrVars, wq_hist, connVars>>

\* url, model_payload = router(meta):
\* payload["messages"][0]["content"] = prompt. The handler runs from here to
\* the await inside stream_producer without yielding to the event loop.
PeerRoute(c, p, m) ==
    /\ peer_pc[c] = "route"
    /\ peer_prompt' = [peer_prompt EXCEPT ![c] = p]
    /\ peer_model' = [peer_model EXCEPT ![c] = m]
    /\ template_content' = [template_content EXCEPT ![m] = p]
    /\ peer_pc' = [peer_pc EXCEPT ![c] = "connect"]
    /\ UNCHANGED <<peer_sent, peerDisp>>
    /\ UNCHANGED <<soloVars, clientVars>>

\* async with ws_client.connect(url) as model_ws: the connection is made.
PeerConnect(c) ==
    /\ peer_pc[c] = "connect"
    /\ peer_pc' = [peer_pc EXCEPT ![c] = "send"]
    /\ UNCHANGED <<template_content, peer_prompt, peer_model, peer_sent, peerDisp>>
    /\ UNCHANGED <<soloVars, clientVars>>

\* await model_ws.send(json.dumps(payload))
PeerSend(c) ==
    /\ peer_pc[c] = "send"
    /\ peer_sent' = [peer_sent EXCEPT ![c] = PayloadContent(c)]
    /\ peer_pc' = [peer_pc EXCEPT ![c] = "get"]
    /\ UNCHANGED <<template_content, peer_prompt, peer_model, peerDisp>>
    /\ UNCHANGED <<soloVars, clientVars>>

\* The connection's dispatcher got a chunk: run_in_executor on the shared
\* executor, pending.add(task).
PeerLaunch(c) ==
    /\ peer_pc[c] = "get"
    /\ peer_launched[c] < MaxPeerChunks
    /\ shared_queue' = Append(shared_queue, PeerTask(c, peer_launched[c]))
    /\ peer_launched' = [peer_launched EXCEPT ![c] = @ + 1]
    /\ peer_pending' = [peer_pending EXCEPT ![c] = @ \cup {peer_launched[c]}]
    /\ peer_pc' = [peer_pc EXCEPT ![c] =
                      IF PoolSaturated(peer_pending'[c]) THEN "wait" ELSE "get"]
    /\ UNCHANGED <<template_content, peer_prompt, peer_model, peer_sent, shared_done>>
    /\ UNCHANGED <<soloVars, clientVars>>

\* The tasks of connection c whose future is done.
PeerDone(c) == {t.id : t \in {u \in shared_done : u.conn = c}}

\* asyncio.wait(pending, FIRST_COMPLETED) returns in the connection's dispatcher.
PeerWait(c) ==
    /\ peer_pc[c] = "wait"
    /\ peer_pending[c] \cap PeerDone(c) # {}
    /\ peer_pending' = [peer_pending EXCEPT ![c] = @ \ PeerDone(c)]
    /\ peer_pc' = [peer_pc EXCEPT ![c] = "get"]
    /\ UNCHANGED <<template_content, peer_prompt, peer_model, peer_sent, peer_launched,
                   shared_queue, shared_done>>
    /\ UNCHANGED <<soloVars, clientVars>>

\* The connection's dispatcher got the end signal.
PeerEnd(c) ==
    /\ peer_pc[c] = "get"
    /\ peer_pc' = [peer_pc EXCEPT ![c] = "gather"]
    /\ UNCHANGED <<template_content, peer_prompt, peer_model, peer_sent, peerDisp>>
    /\ UNCHANGED <<soloVars, clientVars>>

\* gather(*pending) returned in the connection's dispatcher.
PeerGather(c) ==
    /\ peer_pc[c] = "gather"
    /\ peer_pending[c] \subseteq PeerDone(c)
    /\ peer_pc' = [peer_pc EXCEPT ![c] = "done"]
    /\ UNCHANGED <<template_content, peer_prompt, peer_model, peer_sent, peerDisp>>
    /\ UNCHANGED <<soloVars, clientVars>>

\* Mutant of the shared executor: a worker never takes a task of connection B.
SharedRun_OnlyA(i) ==
    /\ i <= Len(shared_queue)
    /\ shared_queue[i].conn = "A"
    /\ shared_done' = shared_done \cup {shared_queue[i]}
    /\ shared_queue' = RemoveAt(shared_queue, i)
    /\ UNCHANGED <<template_content, peer_pc, peer_prompt, peer_model, peer_sent,
                   peer_pending, peer_launched>>
    /\ UNCHANGED <<soloVars, clientVars>>

\* A worker thread of the shared executor finishes the task it is running:
\* the executor's work queue is FIFO, so the running tasks are the first
\* MaxWorkers unfinished ones.
SharedRun(i) ==
    /\ i <= Len(shared_queue)
    /\ shared_done' = shared_done \cup {shared_queue[i]}
    /\ shared_queue' = RemoveAt(shared_queue, i)
    /\ UNCHANGED <<template_content, peer_pc, peer_prompt, peer_model, peer_sent,
                   peer_pending, peer_launched>>
    /\ UNCHANGED <<soloVars, clientVars>>

\* ------------------------------------------- WsClient (src/pages/chatbot.py)
\* send_prompt calls made on one WsClient, at most.
MaxPrompts == 2

\* Token messages the guard server sends in one session, at most.
MaxClientTokens == 2

\* The send_prompt calls, numbered: call g starts thread g and session g.
Gens == 1..MaxPrompts

\* Items of _q, tagged with the call whose thread put them: {"token": text}
\* (the n-th token of its session), {"token": None} and {"error": ...}.
QTok(g, n) == [gen |-> g, kind |-> "token", n |-> n]
QEnd(g)    == [gen |-> g, kind |-> "end", n |-> 0]
QErr(g)    == [gen |-> g, kind |-> "error", n |-> 0]

\* self._q.put(item) by the thread of call g, which moves on to pc.
ThreadPut(g, item, pc) ==
    /\ cq' = Append(cq, item)
    /\ put_hist' = Append(put_hist, item)
    /\ th_pc' = [th_pc EXCEPT ![g] = pc]
    /\ UNCHANGED <<active, gen, st_pc, yielded, consumed>>
    /\ UNCHANGED <<soloVars, peerVars>>

\* if self._active: empty the queue; self._active = True; start the thread.
\* The caller then enters stream() (chatbot.py lines 313-317).
SendPrompt ==
    /\ st_pc \in {"idle", "done"}
    /\ gen < MaxPrompts
    /\ cq' = IF active THEN <<>> ELSE cq
    /\ active' = TRUE
    /\ gen' = gen + 1
    /\ th_pc' = [th_pc EXCEPT ![gen + 1] = "connect"]
    /\ st_pc' = "run"
    /\ yielded' = <<>>
    /\ consumed' = <<>>
    /\ UNCHANGED <<th_n, put_hist>>
    /\ UNCHANGED <<soloVars, peerVars>>

\* websockets.connect and the send of the payload succeeded.
ThConnect(g) ==
    /\ th_pc[g] = "connect"
    /\ th_pc' = [th_pc EXCEPT ![g] = "recv"]
    /\ UNCHANGED <<cq, active, gen, th_n, st_pc, yielded, consumed, put_hist>>
    /\ UNCHANGED <<soloVars, peerVars>>

\* connect or send raised: except Exception: self._q.put({"error": str(e)})
ThConnectFail(g) ==
    /\ th_pc[g] = "connect"
    /\ ThreadPut(g, QErr(g), "closing")
    /\ UNCHANGED th_n

\* A message {"token": text}: put, go on reading.
ThRecvToken(g) ==
    /\ th_pc[g] = "recv"
    /\ th_n[g] < MaxClientTokens
    /\ ThreadPut(g, QTok(g, th_n[g] + 1), "recv")
    /\ th_n' = [th_n EXCEPT ![g] = @ + 1]

\* The message {"token": null}: put, break.
ThRecvEnd(g) ==
    /\ th_pc[g] = "recv"
    /\ ThreadPut(g, QEnd(g), "closing")
    /\ UNCHANGED th_n

\* A message {"error": ...}: put, break (data.get("token") is None). Also an
\* exception while receiving (connection lost, undecodable message):
\* except Exception: self._q.put({"error": str(e)}).
ThRecvError(g) ==
    /\ th_pc[g] = "recv"
    /\ ThreadPut(g, QErr(g), "closing")
    /\ UNCHANGED th_n

\* The server closed the connection without a terminal message: the loop
\* over the messages ends.
ThClosed(g) ==
    /\ th_pc[g] = "recv"
    /\ th_pc' = [th_pc EXCEPT ![g] = "closing"]
    /\ UNCHANGED <<cq, active, gen, th_n, st_pc, yielded, consumed, put_hist>>
    /\ UNCHANGED <<soloVars, peerVars>>

\* Mutant of the finally block: no end-of-stream marker is put.
ThFinally_NoMarker(g) ==
    /\ th_pc[g] = "closing"
    /\ th_pc' = [th_pc EXCEPT ![g] = "done"]
    /\ UNCHANGED <<cq, active, gen, th_n, st_pc, yielded, consumed, put_hist>>
    /\ UNCHANGED <<soloVars, peerVars>>

\* finally: loop.close(); self._q.put({"token": None})
ThFinally(g) ==
    /\ th_pc[g] = "closing"
    /\ ThreadPut(g, QEnd(g), "done")
    /\ UNCHANGED th_n

\* stream(): self._q.get(timeout=10) returned an item. A token is yielded; the
\* marker {"token": None} ends the stream; an error item is yielded and ends it.
StreamGet ==
    /\ st_pc = "run"
    /\ cq # <<>>
    /\ cq' = Tail(cq)
    /\ consumed' = Append(consumed, Head(cq))
    /\ yielded' = IF Head(cq).kind = "end" THEN yielded ELSE Append(yielded, Head(cq))
    /\ st_pc' = IF Head(cq).kind = "token" THEN "run" ELSE "done"
    /\ UNCHANGED <<active, gen, th_pc, th_n, put_hist>>
    /\ UNCHANGED <<soloVars, peerVars>>

\* stream(): no item for 10 seconds: except queue.Empty: break.
StreamTimeout ==
    /\ st_pc = "run"
    /\ cq = <<>>
    /\ st_pc' = "done"
    /\ UNCHANGED <<cq, active, gen, th_pc, th_n, yielded, consumed, put_hist>>
    /\ UNCHANGED <<soloVars, peerVars>>

\* ------------------------------------------------------- specifications
\* The queues, counters and histories of a connection before anything ran.
Fresh ==
    /\ ntok = 0
    /\ raw_token_queue = <<>>
    /\ raw_buffer = <<>>
    /\ chunk_seq = 0
    /\ chunk_queue = <<>>
    /\ disp_pending = {}
    /\ launched = 0
    /\ exec_queue = <<>>
    /\ done_tasks = {}
    /\ write_queue = <<>>
    /\ expected_seq = 0
    /\ writer_pending = [k \in {} |-> <<>>]
    /\ sent = <<>>
    /\ received = <<>>
    /\ chunks = <<>>
    /\ wq_hist = <<>>
    /\ model_ws = "none"
    /\ since_flush = 0
    /\ since_token = 0
    /\ peer_pending = [c \in Conns |-> {}]
    /\ peer_launched = [c \in Conns |-> 0]
    /\ shared_queue = <<>>
    /\ shared_done = {}
    /\ cq = <<>>
    /\ active = FALSE
    /\ gen = 0
    /\ th_pc = [g \in Gens |-> "none"]
    /\ th_n = [g \in Gens |-> 0]
    /\ st_pc = "idle"
    /\ yielded = <<>>
    /\ consumed = <<>>
    /\ put_hist = <<>>

\* No connection has called the router yet.
Unrouted ==
    /\ template_content = [m \in PeerModels |-> <<>>]
    /\ peer_pc = [c \in Conns |-> "route"]
    /\ peer_prompt = [c \in Conns |-> <<>>]
    /\ peer_model = [c \in Conns |-> ""]
    /\ peer_sent = [c \in Conns |-> <<>>]

\* The pipeline of a connection whose prompt was accepted, just started.
Init ==
    /\ Fresh
    /\ prod_pc = "connect"
    /\ asm_pc = "run"
    /\ disp_pc = "get"
    /\ w_pc = "run"
    /\ h_pc = "await_asm"
    /\ prompt = <<"a">>
    /\ url = MODELS["llama-3.2"]
    /\ Unrouted

\* A connection just accepted: the request is not read yet, no stage exists.
InitConn ==
    /\ Fresh
    /\ prod_pc = "idle"
    /\ asm_pc = "idle"
    /\ disp_pc = "idle"
    /\ w_pc = "idle"
    /\ h_pc = "receive"
    /\ prompt = <<>>
    /\ url = ""
    /\ Unrouted

Producer(tokens, max) ==
    \/ ProducerConnect
    \/ ProducerConnectFail
    \/ \E tok \in tokens : ntok < max /\ ProducerToken(tok)
    \/ ProducerTerminal
    \/ ProducerError
    \/ ProducerClose
    \/ ProducerExcept

Assembler ==
    \/ AsmEnd
    \/ \E d \in 0..MaxNlpSeconds : AsmToken(d)
    \/ AsmTimeout

Dispatcher == DispLaunch \/ DispWait \/ DispEnd \/ DispGather

Executor == \E i \in 1..MaxWorkers : WorkerRun(i)

Writer == WriterGet \/ WriterDrain \/ WriterBreak

\* One connection's pipeline.
Next ==
    \/ Producer(PipeTokens, MaxTokens)
    \/ Assembler
    \/ Dispatcher
    \/ Executor
    \/ Writer

Spec == Init /\ [][Next]_vars

Handler ==
    \/ \E p \in Prompts : HandlerNoPrompt(p)
    \/ \E p \in Prompts : HandlerInputRejected(p)
    \/ \E p \in Prompts : HandlerStart(p)
    \/ HandlerAwaitAsm
    \/ HandlerAwaitDisp
    \/ HandlerJoin
    \/ HandlerJoinTimeout

\* One connection from the request on: the handler and the pipeline it starts.
NextConn ==
    \/ Handler
    \/ Producer(PipeTokens, MaxTokens)
    \/ Assembler
    \/ Dispatcher
    \/ Executor
    \/ Writer

\* The assembler takes the item at the head of its queue: the steps AsmEnd and
\* AsmToken, the only ones that take an item off raw_token_queue.
AssemblerTakes ==
    /\ asm_pc = "run"
    /\ raw_token_queue # <<>>
    /\ raw_token_queue' = Tail(raw_token_queue)

\* Weak fairness of AssemblerTakes, its enabling condition written out: an
\* assembler with an item on its queue is not left waiting for ever.
AssemblerFair ==
    \/ []<>(~(asm_pc = "run" /\ raw_token_queue # <<>>))
    \/ []<><<AssemblerTakes>>_vars

\* The backend's stream is finite, every validation call returns, and the
\* event loop and the threads keep running whatever can run.
Fairness ==
    /\ WF_vars(Handler)
    /\ WF_vars(Producer(PipeTokens, MaxTokens))
    /\ AssemblerFair
    /\ WF_vars(Dispatcher)
    /\ WF_vars(Executor)
    /\ WF_vars(Writer)

SpecConn == InitConn /\ [][NextConn]_vars /\ Fairness

\* A connection whose text the output guard accepts throughout, on a longer
\* stream: the writer never aborts, so its drain steps are absent.
NextValid ==
    \/ Producer(ValidTokens, MaxValidTokens)
    \/ Assembler
    \/ Dispatcher
    \/ Executor
    \/ WriterGet

SpecValid == Init /\ [][NextValid]_vars

\* Producer and assembler alone with the clock running, tokens arriving at
\* intervals shorter than the get timeout (so the idle timeout never fires)
\* and the sentence extraction taking no time.
NextTimed ==
    \/ Producer(TimedTokens, MaxAsmTokens)
    \/ AsmEnd
    \/ AsmToken(0)
    \/ Tick

SpecTimed == Init /\ [][NextTimed]_vars

\* Producer and assembler alone, on the richer token set.
NextAsm ==
    \/ Producer(AsmTokens, MaxAsmTokens)
    \/ Assembler

SpecAsm == Init /\ [][NextAsm]_vars

\* The handler of connection c from its router call to the request it sends
\* to the backend.
PeerRequest(c) ==
    \/ \E p \in PeerPrompts, m \in PeerModels : PeerRoute(c, p, m)
    \/ PeerConnect(c)
    \/ PeerSend(c)

\* Two connections at once, from their router calls to their requests.
NextRoute == \E c \in Conns : PeerRequest(c)

SpecRoute == InitConn /\ [][NextRoute]_vars

\* Two connections for the same model whose requests went out one after the
\* other, A's first.
InitPool ==
    /\ Fresh
    /\ prod_pc = "idle"
    /\ asm_pc = "idle"
    /\ disp_pc = "idle"
    /\ w_pc = "idle"
    /\ h_pc = "receive"
    /\ prompt = <<>>
    /\ url = ""
    /\ peer_pc = [c \in Conns |-> "get"]
    /\ peer_prompt = [c \in Conns |-> IF c = "A" THEN <<"a">> ELSE <<"b">>]
    /\ peer_model = [c \in Conns |-> "llama-3.2"]
    /\ peer_sent = peer_prompt
    /\ template_content = [m \in PeerModels |-> IF m = "llama-3.2" THEN <<"b">> ELSE <<>>]

\* The dispatcher of connection c.
PeerDispatcher(c) ==
    \/ PeerLaunch(c)
    \/ PeerWait(c)
    \/ PeerEnd(c)
    \/ PeerGather(c)

SharedExecutor == \E i \in 1..MaxWorkers : SharedRun(i)

\* The dispatchers of two connections and the executor they share.
NextPool ==
    \/ \E c \in Conns : PeerDispatcher(c)
    \/ SharedExecutor

\* Every validation call returns and the event loop keeps running whatever
\* can run.
PoolFair ==
    /\ \A c \in Conns : WF_vars(PeerDispatcher(c))
    /\ \A i \in 1..MaxWorkers : WF_vars(SharedRun(i))

SpecPool == InitPool /\ [][NextPool]_vars /\ PoolFair

\* A started connection in which the assembler or the dispatcher task may end
\* with an unexpected exception, and the handler awaiting them.
NextFault ==
    \/ Next
    \/ AsmRaise
    \/ DispRaise
    \/ HandlerAwaitAsm
    \/ HandlerAwaitDisp
    \/ HandlerJoin
    \/ HandlerJoinTimeout
    \/ HandlerCatch

SpecFault == Init /\ [][NextFault]_vars

\* A connection whose tokens arrive at intervals shorter than the get timeout
\* (the idle timeout never fires), with the sentence extraction taking no
\* time and all text accepted by the guard. At most MaxTokens + 1 chunks
\* exist, so the dispatcher never waits and the writer never aborts.
NextSteady ==
    \/ Producer(SteadyTokens, MaxTokens)
    \/ AsmEnd
    \/ AsmToken(0)
    \/ DispLaunch
    \/ DispEnd
    \/ DispGather
    \/ Executor
    \/ WriterGet

SpecSteady == Init /\ [][NextSteady]_vars

\* Producer and assembler alone, the sentence extraction taking no time, with
\* a backend that may stop sending at any point without the terminal marker:
\* nothing is assumed of the producer, while the assembler's wait on its queue
\* always ends, by an item or by the timeout.
NextStall ==
    \/ Producer(AsmTokens, MaxAsmTokens)
    \/ AsmEnd
    \/ AsmToken(0)
    \/ AsmTimeout

StallFair == WF_vars(AsmTimeout) /\ AssemblerFair

SpecStall == Init /\ [][NextStall]_vars /\ StallFair

\* The background thread of call g.
ClientThread(g) ==
    \/ ThConnect(g)
    \/ ThConnectFail(g)
    \/ ThRecvToken(g)
    \/ ThRecvEnd(g)
    \/ ThRecvError(g)
    \/ ThClosed(g)
    \/ ThFinally(g)

ClientStream == StreamGet \/ StreamTimeout

\* One WsClient: the page's script calling send_prompt and then stream(), and
\* the threads the calls start.
NextClient ==
    \/ SendPrompt
    \/ \E g \in Gens : ClientThread(g)
    \/ ClientStream

\* The script keeps running stream() while it is in it, and a thread that has
\* left _async_send runs its finally block.
ClientFair ==
    /\ WF_vars(ClientStream)
    /\ \A g \in Gens : WF_vars(ThFinally(g))

SpecClient == InitConn /\ [][NextClient]_vars /\ ClientFair

\* ----------------------------------------------------------------- claims
IsTokenMsg(m) == m.type = "token"
TokensSent == SelectSeq(sent, IsTokenMsg)
Terminals == { i \in 1..Len(sent) : sent[i].type # "token" }
ErrorSent == \E i \in 1..Len(sent) : sent[i].type = "error"
EndSent   == \E i \in 1..Len(sent) : sent[i].type = "end"

\* Positions of wq_hist holding a result of sequence s.
ResultsOf(s) == { i \in 1..Len(wq_hist) : ~wq_hist[i].end /\ wq_hist[i].seq = s }

\* Some result was put on write_queue before the result of an earlier chunk.
OutOfOrderCompletion ==
    \E i, j \in 1..Len(wq_hist) :
        /\ i < j /\ ~wq_hist[i].end /\ ~wq_hist[j].end
        /\ wq_hist[i].seq > wq_hist[j].seq

\* Sequences of the chunks whose validation fails.
FailingChunks ==
    { chunks[i].seq : i \in { j \in 1..Len(chunks) :
          chunks[j].is_complete /\ GuardRejects(chunks[j].text) } }

\* C1: the token messages the writer emits carry the sequence numbers 0, 1, 2,
\* ... in this order, each once, and the i-th of them is the text of the chunk
\* of sequence i, whatever the order in which the validations completed.
C1_EmitsInSequenceOrder ==
    \A i \in 1..Len(TokensSent) :
        /\ TokensSent[i].seq = i - 1
        /\ i <= Len(chunks)
        /\ TokensSent[i].text = chunks[i].text

\* C1 witness: results completed out of order and the later one went through
\* the side table before being sent.
C1_Witness ==
    /\ OutOfOrderCompletion
    /\ Len(TokensSent) >= 3
    /\ \E i \in 1..Len(wq_hist) : ~wq_hist[i].end /\ wq_hist[i].seq = 1 /\ ResultsOf(0) # {}
                                  /\ \A j \in ResultsOf(0) : i < j

\* C2: when the validation of chunk k fails, no chunk of sequence >= k is among
\* the token messages, and the tokens sent are the chunks 0..j-1 with j <= k.
C2_NothingAtOrAfterFailure ==
    \A k \in FailingChunks :
        /\ \A i \in 1..Len(TokensSent) : TokensSent[i].seq < k /\ TokensSent[i].seq = i - 1
        /\ Len(TokensSent) <= k

\* C2 witness: chunk 1 failed after chunk 0 was sent, while the valid result of
\* chunk 2 was already held in the side table.
C2_Witness ==
    /\ 1 \in FailingChunks
    /\ ErrorSent
    /\ Len(TokensSent) = 1
    /\ 2 \in DOMAIN writer_pending

\* The pipeline has nothing left to do but the writer's own steps.
UpstreamFinished ==
    /\ prod_pc = "done" /\ asm_pc = "done" /\ disp_pc = "done"
    /\ raw_token_queue = <<>> /\ chunk_queue = <<>> /\ exec_queue = <<>>

\* C3: the writer emits at most one terminal message (end marker or error), it
\* is the last message, the writer has left its loop exactly when it is there,
\* and the writer is never left in its loop with nothing more to come: once
\* the stages before it have finished, there is exactly one terminal message
\* or an item still waiting on the write queue.
C3_OneTerminalMessage ==
    /\ Cardinality(Terminals) <= 1
    /\ \A i \in Terminals : i = Len(sent)
    /\ (w_pc # "run") <=> (Terminals # {})
    /\ (UpstreamFinished /\ write_queue = <<>>) => Cardinality(Terminals) = 1

\* C3 witness: the writer ended on an error, and a second fail result and the
\* end signal were put on the write queue after that.
C3_Witness ==
    /\ w_pc = "done"
    /\ ErrorSent
    /\ Len(write_queue) >= 2
    /\ write_queue[Len(write_queue)].end
    /\ \E i \in 1..Len(write_queue) : write_queue[i].status = "fail"

\* C4 (as claimed): every text sent as a token message passed the output guard.
C4_EveryTokenPassedGuard ==
    \A i \in 1..Len(sent) : sent[i].type = "token" => ~GuardRejects(sent[i].text)

\* The texts of the chunks put on chunk_queue, concatenated in order.
RECURSIVE ConcatTexts(_)
ConcatTexts(cs) == IF cs = <<>> THEN <<>> ELSE Head(cs).text \o ConcatTexts(Tail(cs))

IsPrefix(p, t) == Len(p) <= Len(t) /\ SubSeq(t, 1, Len(p)) = p

\* What the assembler received and has not put in a chunk.
NotEmitted == SubSeq(received, Len(ConcatTexts(chunks)) + 1, Len(received))

\* C5 (as claimed): once the assembler has handled the terminal marker, the
\* chunk texts concatenated equal the concatenation of all tokens received.
C5_ChunksEqualTokens ==
    asm_pc = "done" => ConcatTexts(chunks) = received

\* C5 (amended): the chunk texts concatenated are a prefix of the tokens
\* received; while the assembler runs, the rest is exactly its buffer, and after
\* the terminal marker the rest is empty or whitespace only.
C5_ChunksEqualTokensButBlankTail ==
    /\ IsPrefix(ConcatTexts(chunks), received)
    /\ asm_pc = "run" => NotEmitted = raw_buffer
    /\ asm_pc = "done" => IsBlank(NotEmitted)

\* C5 witness: the stream has ended after a Complete and a Forced chunk, and a
\* whitespace-only remainder was dropped.
C5_Witness ==
    /\ asm_pc = "done"
    /\ NotEmitted # <<>>
    /\ \E i, j \in 1..Len(chunks) : chunks[i].is_complete /\ ~chunks[j].is_complete

\* C6: the i-th chunk put on chunk_queue (counting from 0) carries sequence
\* number i, whichever flush path emitted it.
C6_ChunkSequenceIsIndex ==
    /\ \A i \in 1..Len(chunks) : chunks[i].seq = i - 1
    /\ chunk_seq = Len(chunks)

\* C6 witness: a size-cap flush, a sentence-boundary chunk and a later Forced
\* chunk (timeout or end of stream) were emitted on one connection.
C6_Witness ==
    /\ Len(chunks) >= 3
    /\ ~chunks[1].is_complete /\ Len(chunks[1].text) >= MAX_BUFFER_CHARS
    /\ chunks[2].is_complete
    /\ ~chunks[3].is_complete /\ Len(chunks[3].text) < MAX_BUFFER_CHARS

\* C7: every chunk the dispatcher took has at most one result on the write
\* queue, exactly one once its task is done, carrying the chunk's sequence
\* number and text; every result is the result of such a chunk; and the end
\* signal is put once, after the results of all chunks.
C7_OneResultPerChunkThenEnd ==
    /\ \A j \in 1..launched :
          /\ j <= Len(chunks)
          /\ Cardinality(ResultsOf(chunks[j].seq)) <= 1
          /\ (j - 1) \in done_tasks => Cardinality(ResultsOf(chunks[j].seq)) = 1
          /\ \A i \in ResultsOf(chunks[j].seq) :
                /\ wq_hist[i].text = chunks[j].text
                /\ wq_hist[i].status \in {"valid", "fail"}
    /\ \A i \in 1..Len(wq_hist) :
          /\ ~wq_hist[i].end => \E j \in 1..launched : chunks[j].seq = wq_hist[i].seq
          /\ wq_hist[i].end =>
                /\ i = Len(wq_hist)
                /\ launched = Len(chunks)
                /\ \A j \in 1..launched : Cardinality(ResultsOf(chunks[j].seq)) = 1

\* C7 witness: the end signal has been put after five or more results, some of
\* them of tasks an earlier wait had dropped from the dispatcher's pending set.
C7_Witness ==
    /\ wq_hist # <<>>
    /\ wq_hist[Len(wq_hist)].end
    /\ launched >= PendingThreshold + 1
    /\ Cardinality(disp_pending) < launched

Consumed == SubSeq(wq_hist, 1, Len(wq_hist) - Len(write_queue))

\* C9: the writer never goes on after taking a fail result, whatever its
\* sequence: while it is in its loop no fail result has been taken, and once the
\* error is sent the messages are the chunks below the expected sequence
\* followed by the error, and stay so.
C9_AbortsAtOnce ==
    /\ w_pc = "run" => \A i \in 1..Len(Consumed) : Consumed[i].status # "fail"
    /\ ErrorSent =>
          /\ Len(sent) = expected_seq + 1
          /\ sent[Len(sent)] = ErrorMsg
          /\ \A i \in 1..expected_seq : sent[i].type = "token" /\ sent[i].seq = i - 1

\* C9 witness: chunk 2 failed while the valid chunk 1 was pending; the output
\* is chunk 0 and the error, and the valid result of chunk 1 came afterwards.
C9_Witness ==
    /\ Len(sent) = 2 /\ sent[1].type = "token" /\ sent[2] = ErrorMsg
    /\ expected_seq = 1
    /\ Len(wq_hist) >= 3
    /\ wq_hist[2].status = "fail" /\ wq_hist[2].seq = 2
    /\ \E i \in 3..Len(wq_hist) : wq_hist[i].status = "valid" /\ wq_hist[i].seq = 1

\* C10 (as claimed): after the writer has aborted, the producer puts no further
\* token, the assembler emits no further chunk and the dispatcher launches no
\* further validation.
C10_NoNewWorkAfterAbort ==
    [][ErrorSent => (ntok' = ntok /\ chunks' = chunks /\ launched' = launched)]_vars

\* Positions of the raw token queue holding the terminal marker.
MarkersQueued == { i \in 1..Len(raw_token_queue) : raw_token_queue[i].end }

\* Terminal markers put on the raw token queue so far: those still queued, and
\* the one the assembler took (it returns on the first it takes).
MarkersPut == Cardinality(MarkersQueued) + (IF asm_pc = "done" THEN 1 ELSE 0)

\* C11: once stream_producer has returned, by whichever exit, the terminal
\* marker has been put on the raw token queue; it is put on no other occasion;
\* and no token is put after it: only markers stand behind a marker in the
\* queue, and no token enters the queue once the assembler has taken the marker.
C11_TerminalMarkerOnEveryExit ==
    /\ prod_pc = "done" => MarkersPut >= 1
    /\ prod_pc # "done" => MarkersPut = 0
    /\ \A i \in MarkersQueued :
          \A j \in i..Len(raw_token_queue) : raw_token_queue[j].end
    /\ asm_pc = "done" =>
          \A j \in 1..Len(raw_token_queue) : raw_token_queue[j].end

\* C11 witness: the producer returned in mid-stream, the backend connection
\* having been open, and the marker stands behind tokens not yet consumed.
C11_Witness ==
    /\ prod_pc = "done"
    /\ model_ws = "closed"
    /\ ntok >= 2
    /\ Len(raw_token_queue) >= 3
    /\ raw_token_queue[Len(raw_token_queue)].end

\* Every stage and the handler have ended, the assembler has left no text but
\* whitespace unflushed, the end signal is the last item put on the write queue
\* and the client was sent exactly one terminal message.
AllTerminated ==
    /\ prod_pc = "done"
    /\ asm_pc = "done" /\ IsBlank(NotEmitted)
    /\ disp_pc = "done" /\ wq_hist # <<>> /\ wq_hist[Len(wq_hist)].end
    /\ w_pc = "done" /\ Cardinality(Terminals) = 1
    /\ h_pc = "done"

\* C12: a connection whose pipeline was started always reaches the state where
\* producer, assembler, dispatcher, writer and handler have all ended as above,
\* whichever way the backend's stream ends; and the handler never goes to the
\* join, or past it, before producer, assembler and dispatcher have ended.
C12_PipelineTerminates ==
    /\ (h_pc = "await_asm") ~> AllTerminated
    /\ [](h_pc \in {"join", "done"} /\ w_pc # "idle" =>
            prod_pc = "done" /\ asm_pc = "done" /\ disp_pc = "done")

\* C12 witness: the backend dropped the connection with text unflushed, the
\* remainder went out as a final Forced chunk, and everything has ended on the
\* end marker.
C12_Witness ==
    /\ AllTerminated
    /\ model_ws = "closed"
    /\ Len(chunks) >= 2
    /\ ~chunks[Len(chunks)].is_complete
    /\ EndSent

\* Validation tasks launched and not yet completed.
Outstanding == Len(exec_queue)

\* C13 (as claimed): never more than N = 4 validation tasks are launched and
\* not yet completed.
C13_AtMostThresholdOutstanding == Outstanding <= PendingThreshold

\* C13 (amended): never more than N + 1 = 5 validation tasks are launched and
\* not yet completed, the dispatcher's pending set never holds more than 5, and
\* with 5 outstanding the dispatcher is in its wait, which it leaves only when
\* one of its pending tasks is done.
C13_AtMostThresholdPlusOneOutstanding ==
    /\ Outstanding <= PendingThreshold + 1
    /\ Cardinality(disp_pending) <= PendingThreshold + 1
    /\ Outstanding = PendingThreshold + 1 => disp_pc = "wait"
    /\ disp_pc = "wait" => Cardinality(disp_pending) = PendingThreshold + 1

\* C13 witness: five validations are outstanding, a sixth chunk is waiting on
\* the chunk queue and the dispatcher is not taking it.
C13_Witness ==
    /\ Outstanding = PendingThreshold + 1
    /\ disp_pc = "wait"
    /\ chunk_queue # <<>>
    /\ ~Head(chunk_queue).end

\* C14 (as claimed): the raw token queue and the chunk queue hold less than a
\* fixed number of items. The number tried is the number of tokens of the whole
\* stream: a queue holding more holds everything that was ever put on it, so
\* nothing held the producer or the assembler back.
C14_QueuesBounded ==
    /\ Len(raw_token_queue) <= MaxTokens
    /\ Len(chunk_queue) <= MaxTokens

\* C15 (as claimed): the writer's side table never holds more entries than the
\* greatest number of validations the connection can have in flight.
C15_SideTableWithinInFlightBound ==
    Cardinality(DOMAIN writer_pending) <= PendingThreshold + 1

\* The request was read and its prompt is empty or fails the input guard.
PromptRefused == h_pc # "receive" /\ (prompt = <<>> \/ InputGuardRejects(prompt))

\* No stage of the pipeline exists or ever ran: no router call and no producer,
\* no backend connection, no writer thread, assembler or dispatcher, nothing
\* on any queue and no validation launched.
PipelineNeverStarted ==
    /\ prod_pc = "idle" /\ asm_pc = "idle" /\ disp_pc = "idle" /\ w_pc = "idle"
    /\ model_ws = "none" /\ ntok = 0
    /\ raw_token_queue = <<>> /\ chunk_queue = <<>> /\ write_queue = <<>>
    /\ chunks = <<>> /\ launched = 0 /\ wq_hist = <<>>

\* C16: when the prompt is empty or fails the input guard, the messages sent
\* are exactly one error message (the one of the test that refused the prompt),
\* the handler has returned and the pipeline never started; and the two error
\* messages are sent on no other occasion.
C16_RefusedPromptStartsNothing ==
    /\ PromptRefused =>
          /\ sent = <<IF prompt = <<>> THEN PromptRequiredMsg ELSE InputFailedMsg>>
          /\ h_pc = "done"
          /\ PipelineNeverStarted
    /\ (\E i \in 1..Len(sent) : sent[i] \in {PromptRequiredMsg, InputFailedMsg})
          => PromptRefused

\* C16 witness: a non-empty prompt was refused by the input guard.
C16_Witness ==
    /\ PromptRefused
    /\ prompt # <<>>
    /\ sent = <<InputFailedMsg>>

\* stream_producer returned without ever having a backend connection: the
\* connect (or the send of the payload) failed.
BackendUnreachable == prod_pc = "done" /\ model_ws = "none"

\* C17 (as claimed): when the backend is unreachable the client is not sent the
\* end marker: the terminal message of the connection is an error message.
C17_BackendFailureEndsInError ==
    BackendUnreachable => ~EndSent

\* The first chunk, in sequence order, whose validation fails.
FirstFailing == CHOOSE k \in FailingChunks : \A j \in FailingChunks : k <= j

\* The token messages of the first n chunks, in sequence order.
TokenMsgs(n) == [i \in 1..n |-> TokenMsg(chunks[i].seq, chunks[i].text)]

\* The output fixed by the chunks and their validation outcomes alone, the one
\* the run gives in which the validations complete in submission order: every
\* chunk and the end marker, or the chunks before the first failing one and the
\* error.
OutputInSubmissionOrder ==
    IF FailingChunks = {}
    THEN Append(TokenMsgs(Len(chunks)), EndMsg)
    ELSE Append(TokenMsgs(FirstFailing), ErrorMsg)

\* C18 (as claimed): the messages sent by a writer that has ended are a
\* function of the chunks and their validation outcomes: they are what the run
\* with submission-order completions sends, whatever the completion order was.
C18_OutputIndependentOfCompletionOrder ==
    w_pc = "done" => sent = OutputInSubmissionOrder

\* C18, the other run of the pair: on the chunks "a." (valid) and " xa."
\* (failing) the writer ended having sent chunk 0 and then the error.
C18_Witness ==
    /\ w_pc = "done"
    /\ Len(chunks) = 2
    /\ FailingChunks = {1}
    /\ sent = <<TokenMsg(0, chunks[1].text), ErrorMsg>>

\* C19: every chunk the assembler has put on the chunk queue holds a character
\* that is not whitespace, whichever flush path emitted it.
C19_NoBlankChunk ==
    \A i \in 1..Len(chunks) :
        \E j \in 1..Len(chunks[i].text) : ~IsSpace(chunks[i].text[j])

\* C19 witness: the stream ended on a buffer holding only whitespace, which
\* was not emitted, and the one chunk emitted is a Forced chunk that begins
\* with whitespace.
C19_Witness ==
    /\ asm_pc = "done"
    /\ Len(chunks) = 1
    /\ ~chunks[1].is_complete
    /\ IsSpace(chunks[1].text[1])
    /\ Len(received) > Len(chunks[1].text)
    /\ IsSpace(received[Len(received)])

\* The buffer of the assembler's step once the token it takes is appended.
BufferWithToken == raw_buffer \o SubSeq(received', Len(received) + 1, Len(received'))

\* C20 (as claimed): when the assembler appends a token at a time when the last
\* flush (or its start) is MAX_WAIT_SECONDS or more ago, and the buffer then
\* holds text and no sentence boundary, it emits the whole buffer as a Forced
\* chunk and empties it.
C20_FlushedWithinMaxWait ==
    [][ ( /\ received' # received
          /\ since_flush >= MAX_WAIT_SECONDS
          /\ ~IsBlank(BufferWithToken)
          /\ extract_complete_sentences_spacy(BufferWithToken).complete = <<>> )
        => ( /\ chunks' = Append(chunks, Chunk(chunk_seq, BufferWithToken, FALSE))
             /\ raw_buffer' = <<>> ) ]_vars

\* The tasks the two connections can submit.
PeerTasks == {PeerTask(c, n) : c \in Conns, n \in 0..(MaxPeerChunks - 1)}

Queued(t) == \E i \in 1..Len(shared_queue) : shared_queue[i] = t

\* Tasks of connection c running or queued on the shared executor.
PeerOutstanding(c) == Cardinality({i \in 1..Len(shared_queue) : shared_queue[i].conn = c})

\* C21: with several connections on the one executor, every submitted
\* validation task is eventually executed (each validation call returning),
\* and the tasks one connection has running or queued at once never exceed a
\* cap of its own, PendingThreshold + 1, whatever the other connections do.
\* No task waits for ever: a task leaves the executor's queue only by being
\* executed, and the queue is empty again and again.
C21_SharedExecutorServesEveryConnection ==
    /\ [](\A c \in Conns : PeerOutstanding(c) <= PendingThreshold + 1)
    /\ [][\A t \in PeerTasks : Queued(t) /\ ~Queued(t)' => t \in shared_done']_vars
    /\ []<>(shared_queue = <<>>)

\* Both connections are at their cap at once, so the executor holds twice the
\* cap, and it has already finished tasks of both.
C21_Witness ==
    /\ \A c \in Conns : PeerOutstanding(c) = PendingThreshold + 1
    /\ \A c \in Conns : PeerDone(c) # {}

\* C22: with two connections at once for the same model, the payload of a
\* connection holds that connection's own prompt from its router call to its
\* send (a router call for another connection in between does not change
\* it), and the payload sent to the backend carries its own prompt.
C22_PayloadCarriesOwnPrompt ==
    \A c \in Conns :
        /\ peer_pc[c] \in {"connect", "send"} => PayloadContent(c) = peer_prompt[c]
        /\ peer_pc[c] = "get" => peer_sent[c] = peer_prompt[c]

\* Connection A asked with prompt "a" for the model B asked for, and the
\* request A sent to the backend carries B's prompt "b".
C22_Witness ==
    /\ peer_pc["A"] = "get"
    /\ peer_model["A"] = peer_model["B"]
    /\ peer_prompt["A"] = <<"a">>
    /\ peer_prompt["B"] = <<"b">>
    /\ peer_sent["A"] = <<"b">>

\* C23: if the assembler or dispatcher task ends with an unexpected exception,
\* the client still gets at most one terminal message in all: the handler's
\* {error: "Server error ..."} is never sent after the writer's {error} or
\* {token: null}.
C23_OneTerminalDespiteTaskException ==
    /\ Cardinality(Terminals) <= 1
    /\ \A i \in 1..Len(sent) : sent[i] = ServerErrorMsg => \A j \in 1..(i - 1) : j \notin Terminals

\* The writer sent its {error} for a rejected chunk, the assembler then ended
\* with an exception and the handler sent its own {error} after it.
C23_Witness ==
    /\ asm_pc = "raised"
    /\ h_pc = "done"
    /\ Len(sent) >= 2
    /\ sent[Len(sent)] = ServerErrorMsg
    /\ sent[Len(sent) - 1] = ErrorMsg

\* The stream has its only sentence end as its last character and is shorter
\* than the size cap.
ScenarioA ==
    /\ received # <<>>
    /\ IsTerm(received[Len(received)])
    /\ \A i \in 1..(Len(received) - 1) : ~IsTerm(received[i])
    /\ Len(received) < MAX_BUFFER_CHARS

LastBoundary(text) == CHOOSE i \in Boundaries(text) : \A j \in Boundaries(text) : j <= i

\* C25: flush priority. Whenever the buffer with the token just appended holds
\* a sentence boundary, the assembler emits a Complete chunk of the buffer up
\* to the last boundary and keeps exactly the rest, also when the buffer is
\* MAX_BUFFER_CHARS long or longer; on a token's arrival a Forced chunk is
\* emitted only when there is no boundary, and it is the whole buffer.
C25_BoundaryBeforeSizeCap ==
    [][ received' # received =>
          IF Boundaries(BufferWithToken) # {}
          THEN /\ chunks' = Append(chunks, Chunk(chunk_seq,
                               SubSeq(BufferWithToken, 1, LastBoundary(BufferWithToken)), TRUE))
               /\ raw_buffer' = SubSeq(BufferWithToken, LastBoundary(BufferWithToken) + 1,
                                       Len(BufferWithToken))
          ELSE \/ chunks' = chunks
               \/ chunks' = Append(chunks, Chunk(chunk_seq, BufferWithToken, FALSE)) ]_vars

\* A buffer over the size cap with a boundary inside the last token was split
\* at the boundary: one Complete chunk longer than the cap, the rest kept.
C25_Witness ==
    /\ Len(chunks) = 1
    /\ chunks[1].is_complete
    /\ Len(chunks[1].text) > MAX_BUFFER_CHARS
    /\ raw_buffer = <<" ", "a">>
    /\ received = chunks[1].text \o raw_buffer

\* C26: size cap. Whenever the buffer with the token just appended has no
\* sentence boundary, is not whitespace only and is MAX_BUFFER_CHARS long or
\* longer, the assembler emits the entire buffer as one Forced chunk and
\* resets the buffer to empty.
C26_SizeCapForcesFlush ==
    [][ ( /\ received' # received
          /\ Boundaries(BufferWithToken) = {}
          /\ ~IsBlank(BufferWithToken)
          /\ Len(BufferWithToken) >= MAX_BUFFER_CHARS )
        => ( /\ chunks' = Append(chunks, Chunk(chunk_seq, BufferWithToken, FALSE))
             /\ raw_buffer' = <<>> ) ]_vars

\* The buffer reached the cap exactly on a token's arrival and went out whole
\* as the one Forced chunk, the assembler still running on an empty buffer.
C26_Witness ==
    /\ asm_pc = "run"
    /\ Len(chunks) = 1
    /\ ~chunks[1].is_complete
    /\ Len(chunks[1].text) = MAX_BUFFER_CHARS
    /\ received = chunks[1].text
    /\ raw_buffer = <<>>

\* What the assembler puts on chunk_queue when it takes the terminal marker.
FinalPuts ==
    (IF ~IsBlank(raw_buffer) THEN <<Chunk(chunk_seq, raw_buffer, FALSE)>> ELSE <<>>)
        \o <<EndChunk>>

\* C27: on the terminal marker the assembler emits the remaining buffer, when
\* it is not whitespace only, as one final Forced chunk and then the end
\* signal; the end signal is put exactly once and is the last item the
\* assembler ever puts on the chunk queue. (No stage takes from chunk_queue
\* in these runs, so the queue is the sequence of the assembler's puts.)
C27_EndSignalOnceAndLast ==
    /\ [][asm_pc = "run" /\ asm_pc' = "done" => chunk_queue' = chunk_queue \o FinalPuts]_vars
    /\ [][asm_pc = "done" => asm_pc' = "done" /\ chunk_queue' = chunk_queue]_vars
    /\ [](asm_pc = "run" => \A i \in 1..Len(chunk_queue) : ~chunk_queue[i].end)
    /\ [](asm_pc = "done" => chunk_queue = chunks \o <<EndChunk>>)

\* The stream ended on a buffer holding the start of a sentence, after a
\* Complete chunk: the queue holds that chunk, the final Forced chunk with the
\* buffer, and the end signal.
C27_Witness ==
    /\ asm_pc = "done"
    /\ Len(chunks) = 2
    /\ chunks[1].is_complete
    /\ chunks[2] = Chunk(1, raw_buffer, FALSE)
    /\ chunk_queue = chunks \o <<EndChunk>>
    /\ received = chunks[1].text \o raw_buffer

\* C28: when no token arrives within the get timeout while the buffer holds
\* non-whitespace text, the assembler emits the whole buffer as a Forced chunk
\* and empties it, needing no new token (the step that adds a chunk without
\* taking an item); so text that was buffered is eventually emitted even if
\* the backend stalls for ever without sending the terminal marker.
C28_IdleTimeoutFlushes ==
    /\ [][ chunks' # chunks /\ raw_token_queue' = raw_token_queue
             => /\ raw_token_queue = <<>>
                /\ ~IsBlank(raw_buffer)
                /\ chunks' = Append(chunks, Chunk(chunk_seq, raw_buffer, FALSE))
                /\ raw_buffer' = <<>>
                /\ asm_pc' = "run" ]_vars
    /\ (~IsBlank(NotEmitted)) ~> IsBlank(NotEmitted)

\* The backend sent one token and nothing since, no terminal marker either,
\* and the buffered text went out as a Forced chunk.
C28_Witness ==
    /\ prod_pc = "stream"
    /\ asm_pc = "run"
    /\ raw_token_queue = <<>>
    /\ ntok = 1
    /\ chunks = <<Chunk(0, received, FALSE)>>
    /\ Len(received) < MAX_BUFFER_CHARS
    /\ raw_buffer = <<>>

\* The non-end items put on write_queue so far.
ResultsPut == { i \in 1..Len(wq_hist) : ~wq_hist[i].end }

\* C29: validate_chunk_sync calls the output guard if and only if the chunk is
\* Complete: the result of a chunk is 'fail' exactly when the chunk is Complete
\* and the guard raises on its text, and 'valid' otherwise, so for a Forced
\* chunk 'valid' whatever its text; the result carries the chunk's sequence
\* number and text unchanged; and the guard's exception does not leave the
\* worker: every finished task has put its result.
C29_GuardCalledIffComplete ==
    /\ \A i \in ResultsPut :
          /\ wq_hist[i].seq + 1 \in 1..Len(chunks)
          /\ LET c == chunks[wq_hist[i].seq + 1]
             IN  /\ wq_hist[i].seq = c.seq
                 /\ wq_hist[i].text = c.text
                 /\ wq_hist[i].status =
                        IF c.is_complete /\ GuardRejects(c.text) THEN "fail" ELSE "valid"
    /\ Cardinality(ResultsPut) = Cardinality(done_tasks)

\* On one connection a Complete chunk the guard accepts came back 'valid', a
\* Complete chunk it rejects came back 'fail', and a Forced chunk whose text
\* it would reject came back 'valid'.
C29_Witness ==
    \E i, j, k \in ResultsPut :
        /\ wq_hist[i].status = "valid" /\ chunks[wq_hist[i].seq + 1].is_complete
        /\ wq_hist[j].status = "fail" /\ chunks[wq_hist[j].seq + 1].is_complete
        /\ wq_hist[k].status = "valid" /\ ~chunks[wq_hist[k].seq + 1].is_complete
        /\ GuardRejects(wq_hist[k].text)

\* C30: in every state of websocket_writer before it ends, expected_seq is the
\* number of {token: text} messages sent so far and every key of the side
\* table is strictly greater than expected_seq; expected_seq never decreases.
C30_WriterInvariant ==
    /\ [](w_pc = "run" =>
            /\ expected_seq = Len(TokensSent)
            /\ \A k \in DOMAIN writer_pending : k > expected_seq)
    /\ [][expected_seq' >= expected_seq]_vars

\* The writer has sent chunk 0 and holds later chunks in its side table while
\* it waits for chunk 1.
C30_Witness ==
    /\ w_pc = "run"
    /\ expected_seq = 1
    /\ Len(TokensSent) = 1
    /\ DOMAIN writer_pending # {}
    /\ 1 \notin DOMAIN writer_pending

\* Nothing of the connection can run any more: the producer has returned and
\* no queue holds an item for a stage that is still there to take it.
Quiescent ==
    /\ prod_pc = "done"
    /\ asm_pc = "run" => raw_token_queue = <<>>
    /\ chunk_queue = <<>>
    /\ exec_queue = <<>>
    /\ write_queue = <<>>

\* C31: if the assembler task ends with an exception before it put its end
\* signal, the dispatcher task and the writer thread still terminate: once the
\* handler has returned and nothing is left to run, neither is still waiting
\* on its input queue.
C31_StagesEndAfterAssemblerException ==
    (asm_pc = "raised" /\ h_pc = "done" /\ Quiescent)
        => (disp_pc \in {"done", "raised"} /\ w_pc = "done")

\* The assembler raised on its first token: the handler has reported the
\* server error and returned, while the dispatcher still waits on the empty
\* chunk queue and the writer on the empty write queue.
C31_Witness ==
    /\ asm_pc = "raised"
    /\ h_pc = "done"
    /\ Quiescent
    /\ disp_pc = "get"
    /\ w_pc = "run"
    /\ sent = <<ServerErrorMsg>>

\* router returned ("error", {...}): unknown model name, or a prompt that is
\* empty once stripped.
RouterRejected == url = "error"

\* C32: when router rejects the request, the guard server reports an {error}
\* message to the client (it has done so by the time the handler or the writer
\* is done), attempts no backend connection (the producer never runs through
\* its connect) and emits no {token: null} end marker.
C32_RouterRejectionReported ==
    RouterRejected =>
        /\ ~EndSent
        /\ prod_pc # "done"
        /\ (h_pc = "done" \/ w_pc = "done") => ErrorSent

\* A whitespace-only prompt was rejected by router, and all the client was
\* sent is the end marker, the handler having returned.
C32_Witness ==
    /\ RouterRejected
    /\ IsBlank(prompt)
    /\ h_pc = "done"
    /\ sent = <<EndMsg>>

\* C33: the items stream() takes off the queue after a send_prompt, and so
\* the items it yields and the marker that ends it, were all put by the thread
\* that this send_prompt started, never by the thread of an earlier call.
C33_StreamSeesOnlyOwnSession ==
    /\ \A i \in 1..Len(consumed) : consumed[i].gen = gen
    /\ \A i \in 1..Len(yielded) : yielded[i].gen = gen

\* The second stream has been ended by the first call's thread: by the marker
\* of its finally block, put after the second send_prompt emptied the queue.
C33_Witness ==
    /\ gen = 2
    /\ st_pc = "done"
    /\ consumed = <<QEnd(1)>>
    /\ th_pc[2] = "connect"

\* The items thread g has put on the queue, in order.
PutsOf(g) == SelectSeq(put_hist, LAMBDA it : it.gen = g)

IsYielded(it) == it.kind # "end"

\* What C34 says of every state: a finished thread's last put is the
\* end-of-stream marker; stream() takes the items in the order they were put;
\* it yields the tokens and error items it takes, in that order; and it takes
\* nothing after a marker or an error item, which end it.
C34_Safety ==
    /\ \A g \in Gens :
           th_pc[g] = "done" =>
               /\ PutsOf(g) # <<>>
               /\ PutsOf(g)[Len(PutsOf(g))].kind = "end"
    /\ \E k \in 0..Len(put_hist) :
           SubSeq(put_hist, k + 1, Len(put_hist)) = consumed \o cq
    /\ yielded = SelectSeq(consumed, IsYielded)
    /\ \A i \in 1..Len(consumed) :
           consumed[i].kind # "token" => (i = Len(consumed) /\ st_pc = "done")

\* C34: stream() always terminates and respects the terminal event: the
\* thread puts an end-of-stream marker last on every path, stream() yields the
\* tokens in arrival order, stops at the first {token: None} or {error} item
\* and yields nothing after an error item; a running stream() ends.
C34_StreamTerminatesAtTerminal ==
    /\ []C34_Safety
    /\ (st_pc = "run") ~> (st_pc = "done")
    /\ \A g \in Gens : (th_pc[g] = "closing") ~> (th_pc[g] = "done")

\* Two tokens and the server's error message were yielded in order and the
\* stream ended there; the marker of the finally block is left on the queue.
C34_Witness ==
    /\ st_pc = "done"
    /\ yielded = <<QTok(1, 1), QTok(1, 2), QErr(1)>>
    /\ th_pc[1] = "done"
    /\ cq = <<QEnd(1)>>

====
